---- MODULE Spec2Model ----
(***************************************************************************)
(* Model of scripts/issue_worker.py: the batch pipeline that resolves the  *)
(* image references of an issue, downloads each one, runs main.py on it    *)
(* and writes manifest.json.  One action per statement group of main();    *)
(* the network, the filesystem and the child process are the environment,  *)
(* whose outcomes are chosen with \E in the action that consults them.     *)
(***************************************************************************)
EXTENDS Integers, Sequences, FiniteSets, TLC

\* ------------------------------------------------------------------ bounds
\* Longest issue text of a run, in fragments.
MaxBody == 2
\* Longest --urls-json list.
MaxUrls == 2
\* Longest text handed to extract_image_urls on its own.
MaxFrags == 3

\* ------------------------------------------------------------- input domains
\* A URL whose path ends in a recognised suffix (upper case), one whose path
\* has no suffix, and one urlparse() rejects ("Invalid IPv6 URL").
U1 == "http://h/a.JPG"
U2 == "http://h/b"
U3 == "http://[c"
Urls == {U1, U2, U3}

\* An issue text is a sequence of fragments: a Markdown image or an <img>
\* tag carrying an http(s) URL, a Markdown image whose target is not
\* http(s), or plain text.
Fragments ==
    {[kind |-> k, url |-> u] : k \in {"md", "html"}, u \in Urls}
        \cup {[kind |-> "md_other", url |-> "ftp://h/x.png"],
              [kind |-> "text", url |-> ""]}

SeqsUpTo(S, n) == UNION {[1..k -> S] : k \in 0..n}

\* The issue texts of a run that extracts, and of a run that is given
\* --urls-json (the text is read but not consulted then).
Bodies == SeqsUpTo(Fragments, MaxBody)
SuppliedBodies == {<<>>, <<[kind |-> "md", url |-> U2]>>}

\* --urls-json: absent (""), a JSON array of URLs, text that is not JSON,
\* or a JSON scalar such as 42.
UrlsJsonArgs ==
    {[kind |-> "absent", value |-> <<>>],
     [kind |-> "malformed", value |-> <<>>],
     [kind |-> "scalar", value |-> <<>>]}
        \cup {[kind |-> "list", value |-> l] : l \in SeqsUpTo(Urls, MaxUrls)}

VARIABLES
    pc,              \* position in main()
    urls_json,       \* args.urls_json
    issue_body,      \* the text read from --issue-body-file
    urls,            \* the resolved reference list
    extractor_calls, \* number of calls of extract_image_urls
    manifest,        \* the manifest dict being built
    index,           \* enumerate()'s index of the current item (0 before)
    item,            \* the current item dict
    input_path,      \* inputs/input_{index}{ext} of the current item
    cur,             \* what the environment did to the current item
    env,             \* cur of every appended item, in order
    fs,              \* the files under inputs/
    commands,        \* every subprocess.run issued, in order
    manifest_file,   \* every write of manifest.json, in order
    exit_status,     \* -1 while running, 0 returned, 1 uncaught exception
    crash            \* the statement an uncaught exception left from

vars == <<pc, urls_json, issue_body, urls, extractor_calls, manifest, index,
          item, input_path, cur, env, fs, commands, manifest_file,
          exit_status, crash>>

\* ------------------------------------------------------- extract_image_urls
RECURSIVE Findall(_, _)
\* re.findall of one pattern: the captured URLs of the fragments the pattern
\* matches, left to right.
Findall(kind, body) ==
    IF body = <<>> THEN <<>>
    ELSE IF Head(body).kind = kind
         THEN <<Head(body).url>> \o Findall(kind, Tail(body))
         ELSE Findall(kind, Tail(body))

RECURSIVE Dedupe(_, _, _)
\* The loop of lines 20-23 over `rest`, with `seen` and `acc` so far.
Dedupe(rest, seen, acc) ==
    IF rest = <<>> THEN acc
    ELSE IF Head(rest) \notin seen
         THEN Dedupe(Tail(rest), seen \cup {Head(rest)}, Append(acc, Head(rest)))
         ELSE Dedupe(Tail(rest), seen, acc)

\* Mutant: the HTML matches are collected before the Markdown ones.
extract_image_urls_htmlfirst(body) ==
    Dedupe(Findall("html", body) \o Findall("md", body), {}, <<>>)

extract_image_urls(body) ==
    Dedupe(Findall("md", body) \o Findall("html", body), {}, <<>>)

\* ---------------------------------------------------------- infer_extension
IMAGE_EXTS == {".png", ".jpg", ".jpeg", ".webp", ".bmp"}

\* urlparse(url) raises ValueError for U3.
UrlParses(url) == url # U3

\* Path(urlparse(url).path).suffix
PathSuffix(url) == IF url = U1 THEN ".JPG" ELSE ""

\* str.lower() on the suffixes that occur.
Lower(s) == IF s = ".JPG" THEN ".jpg" ELSE s

\* infer_extension(url, None): the content-type branch is skipped.
infer_extension(url) ==
    IF Lower(PathSuffix(url)) \in IMAGE_EXTS THEN Lower(PathSuffix(url)) ELSE ".png"

InputPath(i, ext) == <<"inputs", i, ext>>
OutputPath(i) == <<"results", i>>
NoPath == <<>>

\* ------------------------------------------------------------------- Init
NoItem == [index |-> 0, url |-> "", status |-> "skipped"]
NoOutcome == [fetch |-> "none", run |-> "none", rc |-> -1, exists |-> FALSE]

Init ==
    /\ pc = "read_issue"
    /\ urls_json \in UrlsJsonArgs
    /\ issue_body = <<>>
    /\ urls = <<>>
    /\ extractor_calls = 0
    /\ manifest = [total_images |-> 0, processed_images |-> 0, items |-> <<>>]
    /\ index = 0
    /\ item = NoItem
    /\ input_path = NoPath
    /\ cur = NoOutcome
    /\ env = <<>>
    /\ fs = {}
    /\ commands = <<>>
    /\ manifest_file = <<>>
    /\ exit_status = -1
    /\ crash = ""

\* An exception main() does not catch: the interpreter exits with status 1.
Fatal(where) ==
    /\ pc' = "crashed"
    /\ crash' = where
    /\ exit_status' = 1

\* ------------------------------------------------------------------ startup
\* Line 64: Path(...).read_text(encoding="utf-8") raises when the file is
\* missing, unreadable or not UTF-8; otherwise the text is the issue body.
ReadIssue ==
    /\ pc = "read_issue"
    /\ \/ /\ \E t \in (IF urls_json.kind = "absent" THEN Bodies ELSE SuppliedBodies) :
                issue_body' = t
          /\ pc' = "resolve"
          /\ UNCHANGED <<crash, exit_status>>
       \/ /\ Fatal("read_issue")
          /\ UNCHANGED issue_body
    /\ UNCHANGED <<urls_json, urls, extractor_calls, manifest, index, item,
                   input_path, cur, env, fs, commands, manifest_file>>

\* Mutant: the supplied list is passed through the extractor's deduplication.
ResolveList_deduped(json, body) ==
    IF json.kind = "absent" THEN extract_image_urls(body)
    ELSE Dedupe(json.value, {}, <<>>)

\* Line 65: json.loads(args.urls_json) if args.urls_json else
\* extract_image_urls(issue_body).
ResolveList(json, body) ==
    IF json.kind = "absent" THEN extract_image_urls(body) ELSE json.value

ResolveUrls ==
    /\ pc = "resolve"
    /\ IF urls_json.kind = "malformed"
       THEN /\ Fatal("urls_json")
            /\ UNCHANGED <<urls, extractor_calls>>
       ELSE /\ urls' = ResolveList(urls_json, issue_body)
            /\ extractor_calls' =
                   IF urls_json.kind = "absent" THEN extractor_calls + 1
                   ELSE extractor_calls
            /\ pc' = "mkdir"
            /\ UNCHANGED <<crash, exit_status>>
    /\ UNCHANGED <<urls_json, issue_body, manifest, index, item, input_path,
                   cur, env, fs, commands, manifest_file>>

\* Lines 67-71: mkdir(parents=True, exist_ok=True) of inputs/ and results/.
MakeDirs ==
    /\ pc = "mkdir"
    /\ \/ /\ pc' = "init_manifest"
          /\ UNCHANGED <<crash, exit_status>>
       \/ Fatal("mkdir")
    /\ UNCHANGED <<urls_json, issue_body, urls, extractor_calls, manifest,
                   index, item, input_path, cur, env, fs, commands,
                   manifest_file>>

\* Lines 73-78: len(urls) raises TypeError for a JSON scalar.
InitManifest ==
    /\ pc = "init_manifest"
    /\ IF urls_json.kind = "scalar"
       THEN /\ Fatal("total_images")
            /\ UNCHANGED manifest
       ELSE /\ manifest' = [total_images |-> Len(urls), processed_images |-> 0,
                            items |-> <<>>]
            /\ pc' = "loop"
            /\ UNCHANGED <<crash, exit_status>>
    /\ UNCHANGED <<urls_json, issue_body, urls, extractor_calls, index, item,
                   input_path, cur, env, fs, commands, manifest_file>>

\* ------------------------------------------------------------ per-item loop
\* Line 81.
NewItem(i, url) == [index |-> i, url |-> url, status |-> "skipped"]

\* Mutant: the loop may stop after its first item.
LoopDone_early(i, us) == i = Len(us) \/ i >= 1

\* Line 80: enumerate(urls, start=1) is exhausted.
LoopDone(i, us) == i = Len(us)

BeginItem ==
    /\ pc = "loop"
    /\ ~LoopDone(index, urls)
    /\ index' = index + 1
    /\ item' = NewItem(index + 1, urls[index + 1])
    /\ cur' = NoOutcome
    /\ input_path' = NoPath
    /\ pc' = "infer"
    /\ UNCHANGED <<urls_json, issue_body, urls, extractor_calls, manifest, env,
                   fs, commands, manifest_file, exit_status, crash>>

LoopExit ==
    /\ pc = "loop"
    /\ LoopDone(index, urls)
    /\ pc' = "write"
    /\ UNCHANGED <<urls_json, issue_body, urls, extractor_calls, manifest,
                   index, item, input_path, cur, env, fs, commands,
                   manifest_file, exit_status, crash>>

\* str(exc) of the exceptions the environment raises.  MemoryError() carries
\* no arguments, so its message is the empty string.
ExcMessage(kind) ==
    CASE kind = "urlparse" -> "Invalid IPv6 URL"
      [] kind = "transport" -> "<urlopen error [Errno 111] Connection refused>"
      [] kind = "status" -> "HTTP Error 404: Not Found"
      [] kind = "timeout" -> "timed out"
      [] kind = "memory" -> ""
      [] kind = "empty" -> "Empty response: <url>"
      [] kind = "write_open" -> "[Errno 13] Permission denied"
      [] kind = "write_partial" -> "[Errno 28] No space left on device"
      [] kind = "spawn_error" -> "[Errno 12] Cannot allocate memory"
      [] kind = "decode_error" -> "'utf-8' codec can't decode byte 0xff"

\* Mutant: the handler leaves the status as it was.
ExceptItem_keeps_status(it, msg) == it @@ [log |-> msg]

\* Lines 96-97.
ExceptItem(it, msg) == [it EXCEPT !.status = "failed"] @@ [log |-> msg]

\* Mutant: no handler around the item's steps.
Catch_escapes(msg) ==
    /\ item' = item
    /\ Fatal("item")

\* Lines 95-97: except Exception as exc, then on to line 98.
Catch(msg) ==
    /\ item' = ExceptItem(item, msg)
    /\ pc' = "append"
    /\ UNCHANGED <<crash, exit_status>>

\* Lines 83-84.
InferExtension ==
    /\ pc = "infer"
    /\ IF UrlParses(item.url)
       THEN /\ input_path' = InputPath(index, infer_extension(item.url))
            /\ pc' = "download"
            /\ UNCHANGED <<item, crash, exit_status>>
       ELSE /\ Catch(ExcMessage("urlparse"))
            /\ UNCHANGED input_path
    /\ UNCHANGED <<urls_json, issue_body, urls, extractor_calls, manifest,
                   index, cur, env, fs, commands, manifest_file>>

\* ---------------------------------------------------------- download_image
\* What download_image(url, save_path) can do: urlopen raises (transport
\* error, non-2xx status, timeout), read() raises (MemoryError), the body is
\* empty, write_bytes fails opening the file, write_bytes fails after
\* creating it, or all of it succeeds.
FetchOutcomes ==
    {"transport", "status", "timeout", "memory", "empty", "write_open",
     "write_partial", "ok"}

\* Lines 41-45: the file at `path` after download_image with that outcome.
\* write_bytes opens with mode "wb" and then writes: a failure of the write
\* leaves the created file behind, truncated.
FsAfter(files, path, outcome) ==
    CASE outcome = "ok" ->
           {f \in files : f.path # path} \cup {[path |-> path, content |-> "complete"]}
      [] outcome = "write_partial" ->
           {f \in files : f.path # path} \cup {[path |-> path, content |-> "partial"]}
      [] OTHER -> files

\* Line 85.
Download ==
    /\ pc = "download"
    /\ \E outcome \in FetchOutcomes :
          /\ cur' = [cur EXCEPT !.fetch = outcome]
          /\ fs' = FsAfter(fs, input_path, outcome)
          /\ IF outcome = "ok"
             THEN /\ pc' = "run_main"
                  /\ UNCHANGED <<item, crash, exit_status>>
             ELSE Catch(ExcMessage(outcome))
    /\ UNCHANGED <<urls_json, issue_body, urls, extractor_calls, manifest,
                   index, input_path, env, commands, manifest_file>>

\* ------------------------------------------------------------------ run_main
\* Line 51.
RunOk(rc, exists) == rc = 0 /\ exists

\* Mutant: the paths are recorded only for an item that succeeded.
RanItem_paths_if_ok(it, inp, out, ok, message) ==
    IF ok
    THEN [it EXCEPT !.status = "ok"]
             @@ [input |-> inp, output |-> out, log |-> message]
    ELSE [it EXCEPT !.status = "failed"] @@ [log |-> message]

\* Lines 89-92.
RanItem(it, inp, out, ok, message) ==
    [it EXCEPT !.status = IF ok THEN "ok" ELSE "failed"]
        @@ [input |-> inp, output |-> out, log |-> message]

\* Mutant: every item that ran is counted.
ProcessedAfter_always(p, ok) == p + 1

\* Lines 93-94.
ProcessedAfter(p, ok) == IF ok THEN p + 1 ELSE p

\* Mutant: a failed invocation is issued a second time.
CommandsAfter_retry(cmds, inp, out, rc) ==
    IF rc = 0 THEN Append(cmds, [input |-> inp, output |-> out])
    ELSE cmds \o <<[input |-> inp, output |-> out], [input |-> inp, output |-> out]>>

\* Lines 49-50: one subprocess.run of main.py with the two paths.
CommandsAfter(cmds, inp, out, rc) == Append(cmds, [input |-> inp, output |-> out])

\* Lines 87-94.  subprocess.run(capture_output=True, text=True) raises
\* OSError when the child cannot be started, and UnicodeDecodeError when the
\* child has exited and its captured output is not valid text; otherwise it
\* returns the exit status and the output.
RunMain ==
    /\ pc = "run_main"
    /\ \/ /\ cur' = [cur EXCEPT !.run = "spawn_error"]
          /\ commands' = CommandsAfter(commands, input_path, OutputPath(index), -1)
          /\ Catch(ExcMessage("spawn_error"))
          /\ UNCHANGED manifest
       \/ \E rc \in {0, 1}, exists \in BOOLEAN :
             /\ cur' = [cur EXCEPT !.run = "decode_error", !.rc = rc,
                                   !.exists = exists]
             /\ commands' = CommandsAfter(commands, input_path, OutputPath(index), rc)
             /\ Catch(ExcMessage("decode_error"))
             /\ UNCHANGED manifest
       \/ \E rc \in {0, 1}, exists \in BOOLEAN, message \in {"", "log"} :
             /\ cur' = [cur EXCEPT !.run = "returned", !.rc = rc,
                                   !.exists = exists]
             /\ commands' = CommandsAfter(commands, input_path, OutputPath(index), rc)
             /\ item' = RanItem(item, input_path, OutputPath(index),
                                RunOk(rc, exists), message)
             /\ manifest' = [manifest EXCEPT !.processed_images =
                                ProcessedAfter(@, RunOk(rc, exists))]
             /\ pc' = "append"
             /\ UNCHANGED <<crash, exit_status>>
    /\ UNCHANGED <<urls_json, issue_body, urls, extractor_calls, index,
                   input_path, env, fs, manifest_file>>

\* Line 98.
AppendItem ==
    /\ pc = "append"
    /\ manifest' = [manifest EXCEPT !.items = Append(@, item)]
    /\ env' = Append(env, cur)
    /\ pc' = "loop"
    /\ UNCHANGED <<urls_json, issue_body, urls, extractor_calls, index, item,
                   input_path, cur, fs, commands, manifest_file, exit_status,
                   crash>>

\* Lines 100-103: json.dumps and write_text; an OSError here is not caught.
WriteManifest ==
    /\ pc = "write"
    /\ \/ /\ manifest_file' = Append(manifest_file, manifest)
          /\ pc' = "return"
          /\ UNCHANGED <<crash, exit_status>>
       \/ /\ Fatal("manifest_write")
          /\ UNCHANGED manifest_file
    /\ UNCHANGED <<urls_json, issue_body, urls, extractor_calls, manifest,
                   index, item, input_path, cur, env, fs, commands>>

\* Line 104.
Return ==
    /\ pc = "return"
    /\ exit_status' = 0
    /\ pc' = "done"
    /\ UNCHANGED <<urls_json, issue_body, urls, extractor_calls, manifest,
                   index, item, input_path, cur, env, fs, commands,
                   manifest_file, crash>>

Next ==
    \/ ReadIssue
    \/ ResolveUrls
    \/ MakeDirs
    \/ InitManifest
    \/ BeginItem
    \/ LoopExit
    \/ InferExtension
    \/ Download
    \/ RunMain
    \/ AppendItem
    \/ WriteManifest
    \/ Return

Spec == Init /\ [][Next]_vars

\* ---------------------------------------- extract_image_urls on its own
InitExtract ==
    /\ pc = "extract"
    /\ urls_json = [kind |-> "absent", value |-> <<>>]
    /\ issue_body \in SeqsUpTo(Fragments, MaxFrags)
    /\ urls = <<>>
    /\ extractor_calls = 0
    /\ manifest = [total_images |-> 0, processed_images |-> 0, items |-> <<>>]
    /\ index = 0
    /\ item = NoItem
    /\ input_path = NoPath
    /\ cur = NoOutcome
    /\ env = <<>>
    /\ fs = {}
    /\ commands = <<>>
    /\ manifest_file = <<>>
    /\ exit_status = -1
    /\ crash = ""

\* One call of extract_image_urls(issue_body), lines 15-24.
ExtractCall ==
    /\ pc = "extract"
    /\ urls' = extract_image_urls(issue_body)
    /\ extractor_calls' = extractor_calls + 1
    /\ pc' = "extracted"
    /\ UNCHANGED <<urls_json, issue_body, manifest, index, item, input_path,
                   cur, env, fs, commands, manifest_file, exit_status, crash>>

NextExtract == ExtractCall

SpecExtract == InitExtract /\ [][NextExtract]_vars

\* ------------------------------------------------------------ claim helpers
\* The manifest as written (defined once manifest.json has been written).
Written == manifest_file[1]

IsWritten == manifest_file # <<>>

Failed(m) == {k \in DOMAIN m.items : m.items[k].status = "failed"}

\* The kind of the exception item k's processing raised, "none" if it raised
\* none: from what the environment did to it.
RaisedKind(url, e) ==
    IF ~UrlParses(url) THEN "urlparse"
    ELSE IF e.fetch # "ok" THEN e.fetch
    ELSE IF e.run \in {"spawn_error", "decode_error"} THEN e.run
    ELSE "none"

\* The number of subprocess.run calls issued for item k.
Invocations(k) ==
    Cardinality({c \in DOMAIN commands : commands[c].output = OutputPath(k)})

\* The files item k's download left under inputs/.
InputFiles(k) == {f \in fs : f.path[2] = k}

\* The position of a URL's first match in the sequence of all Markdown
\* matches followed by all HTML matches of text b.
MatchRank(b, p) == IF b[p].kind = "md" THEN p ELSE Len(b) + p
Matches(b) == {p \in DOMAIN b : b[p].kind \in {"md", "html"}}
FirstRank(b, u) ==
    CHOOSE r \in {MatchRank(b, p) : p \in {q \in Matches(b) : b[q].url = u}} :
        \A p \in {q \in Matches(b) : b[q].url = u} : r <= MatchRank(b, p)

\* ------------------------------------------------------------------ claims
\* C1: whenever manifest.json has been written, its items list has exactly
\* one entry per resolved reference (len(items) = total_images = n), where
\* the resolved list is the --urls-json list verbatim (order and duplicates
\* kept, the extractor never called) when one is given and the extractor's
\* output otherwise; entry k has index k and the k-th reference as url.
C1_ManifestMatchesReferences ==
    IsWritten =>
        LET refs == IF urls_json.kind = "list" THEN urls_json.value
                    ELSE extract_image_urls(issue_body)
        IN /\ Len(Written.items) = Written.total_images
           /\ Written.total_images = Len(refs)
           /\ \A k \in 1..Len(refs) :
                 /\ Written.items[k].index = k
                 /\ Written.items[k].url = refs[k]
           /\ urls_json.kind = "list" => extractor_calls = 0

\* C1 witness: a manifest written for a supplied list that repeats a URL,
\* with its first item failed and its second item ok.
C1_Witness ==
    /\ IsWritten
    /\ urls_json.kind = "list"
    /\ Len(urls_json.value) = 2
    /\ urls_json.value[1] = urls_json.value[2]
    /\ Written.items[1].status = "failed"
    /\ Written.items[2].status = "ok"

\* C2: after every iteration of the per-item loop, and in the written
\* manifest, processed_images is the number of items whose status is "ok",
\* and it never exceeds total_images.
C2_ProcessedCountsOk ==
    /\ pc \in {"loop", "write", "return", "done"} =>
          /\ manifest.processed_images =
                 Cardinality({k \in DOMAIN manifest.items :
                                 manifest.items[k].status = "ok"})
          /\ manifest.processed_images <= manifest.total_images
    /\ IsWritten =>
          /\ Written.processed_images =
                 Cardinality({k \in DOMAIN Written.items :
                                 Written.items[k].status = "ok"})
          /\ Written.processed_images <= Written.total_images

\* C2 witness: between two iterations, one item ok and one failed so far.
C2_Witness ==
    /\ pc = "loop"
    /\ Len(manifest.items) = 2
    /\ manifest.items[1].status = "ok"
    /\ manifest.items[2].status = "failed"
    /\ manifest.processed_images = 1

\* C7: extract_image_urls returns a list without duplicates that holds
\* exactly the URLs matched by the Markdown-image or the <img> syntax, in the
\* order of their first occurrence in the sequence of all Markdown matches
\* followed by all HTML matches; a text without an http(s) image reference
\* (the empty text included) yields the empty list.
C7_ExtractDedupedInOrder ==
    pc = "extracted" =>
        /\ \A i, j \in DOMAIN urls : i # j => urls[i] # urls[j]
        /\ {urls[i] : i \in DOMAIN urls} =
               {issue_body[p].url : p \in Matches(issue_body)}
        /\ \A i, j \in DOMAIN urls :
               i < j => FirstRank(issue_body, urls[i]) < FirstRank(issue_body, urls[j])
        /\ Matches(issue_body) = {} => urls = <<>>

\* C7 witness: a text whose first fragment is an <img> of a URL that a later
\* Markdown image of another URL precedes in the output, the first URL also
\* occurring in Markdown form after it.
C7_Witness ==
    /\ pc = "extracted"
    /\ Len(issue_body) = 3
    /\ issue_body[1].kind = "html"
    /\ issue_body[2].kind = "md"
    /\ issue_body[3].kind = "md"
    /\ issue_body[3].url = issue_body[1].url
    /\ issue_body[2].url # issue_body[1].url
    /\ urls = <<issue_body[2].url, issue_body[1].url>>

\* C10: in the written manifest an entry carries the input and output path
\* fields exactly when its fetch succeeded and its transform invocation
\* returned (so also when the transform failed), and neither when it failed
\* through a caught exception; every entry carries a log field and none has
\* status "skipped".
C10_PathFieldsIffInvocationReturned ==
    IsWritten =>
        \A k \in DOMAIN Written.items :
            LET it == Written.items[k]
                returned == env[k].fetch = "ok" /\ env[k].run = "returned"
            IN /\ ("input" \in DOMAIN it) <=> returned
               /\ ("output" \in DOMAIN it) <=> returned
               /\ "log" \in DOMAIN it
               /\ it.status # "skipped"
               /\ returned =>
                     /\ it.input = InputPath(k, infer_extension(it.url))
                     /\ it.output = OutputPath(k)

\* C10 witness: a written manifest whose first entry failed in the transform
\* (exit status 1) and records both paths, and whose second entry failed
\* through an exception and records neither.
C10_Witness ==
    /\ IsWritten
    /\ Len(Written.items) = 2
    /\ Written.items[1].status = "failed"
    /\ env[1].run = "returned"
    /\ env[1].rc = 1
    /\ "input" \in DOMAIN Written.items[1]
    /\ Written.items[2].status = "failed"
    /\ env[2].fetch = "timeout"
    /\ "input" \notin DOMAIN Written.items[2]

\* The statements of main() outside the per-item loop that can raise.
StartupSteps == {"read_issue", "urls_json", "mkdir", "total_images"}

\* Isolation of item k: no exception leaves its iteration, its entry is in
\* the manifest with its index and url, and its status depends on nothing
\* but what the environment did to item k itself.
Isolated(k) ==
    LET it == manifest.items[k]
        kind == RaisedKind(urls[k], env[k])
    IN /\ it.index = k
       /\ it.url = urls[k]
       /\ kind # "none" =>
             /\ it.status = "failed"
             /\ it.log = ExcMessage(kind)
       /\ kind = "none" =>
             it.status = IF env[k].rc = 0 /\ env[k].exists THEN "ok" ELSE "failed"

\* C3 (as claimed): every error raised while item k is processed is caught
\* in k's iteration and gives k a "failed" entry whose log is the error's
\* message and is not empty; no error leaves the per-item boundary, the
\* later items are processed as if k had succeeded, and the manifest is
\* written with total_images entries.
C3_Original ==
    /\ pc = "crashed" => crash \in StartupSteps \cup {"manifest_write"}
    /\ \A k \in DOMAIN manifest.items :
          /\ Isolated(k)
          /\ RaisedKind(urls[k], env[k]) # "none" => manifest.items[k].log # ""
    /\ pc \in {"write", "return", "done"} => Len(manifest.items) = Len(urls)
    /\ IsWritten => Len(Written.items) = Written.total_images

\* C3 (amended): as claimed, except that the log is the error's message
\* whether or not that message is empty.
C3_FailureIsolation ==
    /\ pc = "crashed" => crash \in StartupSteps \cup {"manifest_write"}
    /\ \A k \in DOMAIN manifest.items : Isolated(k)
    /\ pc \in {"write", "return", "done"} => Len(manifest.items) = Len(urls)
    /\ IsWritten => Len(Written.items) = Written.total_images

\* C3 witness: a written manifest whose first item failed through an
\* exception without a message and whose second item is ok.
C3_Witness ==
    /\ IsWritten
    /\ Len(Written.items) = 2
    /\ env[1].fetch = "memory"
    /\ Written.items[1].status = "failed"
    /\ Written.items[1].log = ""
    /\ Written.items[2].status = "ok"

\* C4 (as claimed): an entry of the written manifest has status "ok" if and
\* only if its fetch succeeded, the transform process exited with status 0
\* and the output path existed after the process returned; otherwise its
\* status is "failed".
C4_Claim ==
    IsWritten =>
        \A k \in DOMAIN Written.items :
            LET good == /\ env[k].fetch = "ok"
                        /\ env[k].rc = 0
                        /\ env[k].exists
            IN /\ Written.items[k].status = "ok" <=> good
               /\ ~good => Written.items[k].status = "failed"

\* C5 (as claimed): only directory creation and the manifest write can be
\* fatal to the run.
C5_Original ==
    pc = "crashed" => crash \in {"mkdir", "manifest_write"}

\* C5 (amended): only reading the issue-text file, parsing the --urls-json
\* argument, taking the length of its value, directory creation and the
\* manifest write can be fatal; once the per-item loop has begun, only the
\* manifest write can.
C5_FatalOnlyOutsideLoop ==
    pc = "crashed" =>
        /\ crash \in StartupSteps \cup {"manifest_write"}
        /\ crash \in StartupSteps => index = 0 /\ manifest.items = <<>>

\* C5 witness: a run given a --urls-json list that ended at the read of the
\* issue-text file.
C5_Witness ==
    /\ pc = "crashed"
    /\ crash = "read_issue"
    /\ urls_json.kind = "list"
    /\ exit_status = 1

\* Written at most once, after every reference has its entry, and never
\* while items are being processed.
WrittenOnceAtEnd ==
    /\ Len(manifest_file) <= 1
    /\ IsWritten =>
          /\ Written = manifest
          /\ Len(Written.items) = Len(urls)
          /\ index = Len(urls)
    /\ pc \in {"loop", "infer", "download", "run_main", "append", "write"} =>
          ~IsWritten
    /\ pc = "done" => Len(manifest_file) = 1

\* C6 (as claimed): the manifest is written exactly once, after every
\* reference has been processed; a run that reaches the manifest-write step
\* returns status 0 whatever the items' outcomes.
C6_Original ==
    /\ WrittenOnceAtEnd
    /\ (pc = "done" \/ crash = "manifest_write") => exit_status = 0

\* C6 (amended): the manifest is written at most once, after every
\* reference has been processed; a run whose manifest write has completed
\* returns status 0 whatever the items' outcomes, also when every item
\* failed and when there is no reference.
C6_WrittenOnceThenZero ==
    /\ WrittenOnceAtEnd
    /\ pc = "done" => exit_status = 0
    /\ exit_status = 0 => pc = "done" /\ IsWritten
    /\ (IsWritten /\ urls = <<>>) =>
          Written = [total_images |-> 0, processed_images |-> 0, items |-> <<>>]

\* C6 witness: a run that returned 0 with two references, both failed.
C6_Witness ==
    /\ pc = "done"
    /\ exit_status = 0
    /\ Len(urls) = 2
    /\ Failed(Written) = {1, 2}
    /\ Written.processed_images = 0

\* C8 (as claimed): an item whose fetch failed (transport error, non-2xx
\* status, timeout, empty body) is recorded as failed and has no file,
\* complete or partial, under inputs/; an input file exists exactly for the
\* items whose fetch succeeded.
C8_Claim ==
    \A k \in DOMAIN manifest.items :
        /\ env[k].fetch \in {"transport", "status", "timeout", "empty"} =>
              /\ manifest.items[k].status = "failed"
              /\ InputFiles(k) = {}
        /\ InputFiles(k) # {} <=> env[k].fetch = "ok"

\* C9 (as claimed): for every item of the batch the transform invocation is
\* issued exactly once, and item k is finished before item k+1 begins.
C9_Original ==
    /\ pc \in {"write", "return", "done"} =>
          \A k \in 1..Len(urls) : Invocations(k) = 1
    /\ \A k \in 1..Len(urls) : Invocations(k) <= 1
    /\ pc \in {"infer", "download", "run_main", "append"} =>
          Len(manifest.items) = index - 1
    /\ \A c \in DOMAIN commands : commands[c].output[2] <= index
    /\ \A f \in fs : f.path[2] <= index

\* C9 (amended): the transform invocation is issued exactly once for every
\* item whose fetch succeeded and never for an item whose extension
\* inference or fetch failed; it is never issued twice, and item k is
\* finished before item k+1 begins.
C9_AtMostOnceSequential ==
    /\ \A k \in DOMAIN manifest.items :
          Invocations(k) =
              IF UrlParses(urls[k]) /\ env[k].fetch = "ok" THEN 1 ELSE 0
    /\ \A k \in 1..Len(urls) : Invocations(k) <= 1
    /\ pc \in {"infer", "download", "run_main", "append"} =>
          Len(manifest.items) = index - 1
    /\ pc \in {"loop", "write", "return", "done"} =>
          Len(manifest.items) = index
    /\ \A c \in DOMAIN commands : commands[c].output[2] <= index
    /\ \A f \in fs : f.path[2] <= index

\* C9 witness: at the end of the loop, a first item whose fetch failed (no
\* invocation) and a second whose transform exited with status 1 (one
\* invocation, not repeated).
C9_Witness ==
    /\ pc = "write"
    /\ Len(urls) = 2
    /\ env[1].fetch = "status"
    /\ Invocations(1) = 0
    /\ env[2].run = "returned"
    /\ env[2].rc = 1
    /\ Invocations(2) = 1

====
